---- MODULE Spec2Model ----
(***************************************************************************)
(* Model of src/data_pipeline.py: one run of main().                       *)
(*                                                                         *)
(* Numbers of the upstream rows are Python floats/ints; they are modelled  *)
(* as exact rationals <<numerator, denominator>> in lowest terms with a    *)
(* positive denominator (floating-point rounding is not modelled).         *)
(* A Python dict is a function whose DOMAIN is its key set; p['K'] raises  *)
(* KeyError when K is not a key, p.get('K', d) yields d.                   *)
(***************************************************************************)
EXTENDS Integers, Sequences, FiniteSets, TLC

VARIABLES
    pc,            \* position of the run inside main()/process_data()
    dir_exists,    \* os.path.exists(DATA_DIR)
    team_map,      \* process_data: team_map
    board,         \* what the ScoreboardV2 call produced (ok + GameHeader rows)
    stats,         \* what the LeagueDashPlayerStats call produced (ok + rows)
    pct_scale,     \* scale the upstream used for percentages in this run
    raw_schedule,  \* process_data: raw_schedule
    raw_players,   \* process_data: raw_players
    players_db,    \* process_data: players_db
    idx,           \* position of the "for p in raw_players" loop (1-based)
    apex_db,       \* <<>> until process_data returned, then <<db>>
    out_file,      \* <<>> while OUTPUT_FILE is absent, else <<contents>>
    stdout,        \* the messages printed so far
    calls,         \* number of upstream calls made per endpoint
    error,         \* "none", or the exception that escaped main
    trace          \* the stages started so far, in order

vars == <<pc, dir_exists, team_map, board, stats, pct_scale, raw_schedule,
          raw_players, players_db, idx, apex_db, out_file, stdout, calls,
          error, trace>>

(***************************************************************************)
(* Bounds of the model.                                                    *)
(***************************************************************************)
MaxGames == 2
MaxRows == 2

(***************************************************************************)
(* Rational arithmetic (Python's /, *, < and > on numbers).                *)
(***************************************************************************)
Abs(n) == IF n < 0 THEN -n ELSE n

RECURSIVE GCD(_, _)
GCD(a, b) == IF b = 0 THEN a ELSE GCD(b, a % b)

Rat(n, d) ==
    LET g == GCD(Abs(n), Abs(d))
        s == IF (n < 0) # (d < 0) THEN -1 ELSE 1
    IN  <<s * (Abs(n) \div g), Abs(d) \div g>>

Zero == <<0, 1>>
One == <<1, 1>>
Hundred == <<100, 1>>

RatLess(a, b) == a[1] * b[2] < b[1] * a[2]
RatMul(a, b) == Rat(a[1] * b[1], a[2] * b[2])
RatDiv(a, b) == Rat(a[1] * b[2], a[2] * b[1])

(***************************************************************************)
(* str() of a non-negative integer: its decimal digits.                    *)
(***************************************************************************)
Digit == <<"0", "1", "2", "3", "4", "5", "6", "7", "8", "9">>

RECURSIVE str(_)
str(n) == IF n < 10 THEN Digit[n + 1]
          ELSE str(n \div 10) \o Digit[(n % 10) + 1]

(***************************************************************************)
(* Python dict operations.                                                 *)
(***************************************************************************)
Get(p, k, d) == IF k \in DOMAIN p THEN p[k] ELSE d
Put(db, k, v) == [x \in (DOMAIN db) \cup {k} |-> IF x = k THEN v ELSE db[x]]
Without(p, k) == [x \in (DOMAIN p) \ {k} |-> p[x]]
EmptyDict == [x \in {} |-> x]

(***************************************************************************)
(* Configuration.                                                          *)
(***************************************************************************)
SEASON == "2024-25"

(***************************************************************************)
(* get_team_map: the static team list, as id -> abbreviation.              *)
(***************************************************************************)
nba_teams == <<[id |-> 1, abbreviation |-> "ATL"],
               [id |-> 2, abbreviation |-> "BOS"]>>

RECURSIVE team_map_loop(_, _, _)
team_map_loop(teams, i, tm) ==
    IF i > Len(teams) THEN tm
    ELSE team_map_loop(teams, i + 1, Put(tm, teams[i].id, teams[i].abbreviation))

get_team_map == team_map_loop(nba_teams, 1, EmptyDict)

(***************************************************************************)
(* fetch_schedule.  The upstream answer is either a failure (network,      *)
(* timeout, missing 'GameHeader') or the list of GameHeader rows.          *)
(***************************************************************************)
GameKeys == {"HOME_TEAM_ID", "VISITOR_TEAM_ID", "GAME_ID", "GAME_DATE_EST",
             "GAME_SEQUENCE"}

game_raises(g) == ~(GameKeys \subseteq DOMAIN g)

\* variant: the away abbreviation looked up with the home identifier
game_obj_home_twice(tm, g) ==
    [gameId     |-> g.GAME_ID,
     date       |-> g.GAME_DATE_EST,
     homeTeamId |-> Get(tm, g.HOME_TEAM_ID, "UNK"),
     awayTeamId |-> Get(tm, g.HOME_TEAM_ID, "UNK"),
     sequence   |-> g.GAME_SEQUENCE]

game_obj(tm, g) ==
    [gameId     |-> g.GAME_ID,
     date       |-> g.GAME_DATE_EST,
     homeTeamId |-> Get(tm, g.HOME_TEAM_ID, "UNK"),
     awayTeamId |-> Get(tm, g.VISITOR_TEAM_ID, "UNK"),
     sequence   |-> g.GAME_SEQUENCE]

RECURSIVE schedule_loop(_, _, _, _)
schedule_loop(tm, games_dict, i, schedule) ==
    IF i > Len(games_dict) THEN [raised |-> FALSE, schedule |-> schedule]
    ELSE IF game_raises(games_dict[i]) THEN [raised |-> TRUE, schedule |-> schedule]
    ELSE schedule_loop(tm, games_dict, i + 1,
                       Append(schedule, game_obj(tm, games_dict[i])))

schedule_raises(tm, resp) ==
    ~resp.ok \/ schedule_loop(tm, resp.rows, 1, <<>>).raised

\* variant: the rows projected before the exception are kept
fetch_schedule_partial(tm, resp) ==
    IF ~resp.ok THEN <<>> ELSE schedule_loop(tm, resp.rows, 1, <<>>).schedule

fetch_schedule(tm, resp) ==
    IF schedule_raises(tm, resp) THEN <<>>
    ELSE schedule_loop(tm, resp.rows, 1, <<>>).schedule

(***************************************************************************)
(* fetch_player_stats.                                                     *)
(***************************************************************************)
fetch_player_stats(resp) == IF resp.ok THEN resp.rows ELSE <<>>

(***************************************************************************)
(* process_data, the loop body for one raw player row p (lines 93-116).    *)
(***************************************************************************)
Subscripted == {"PLAYER_ID", "PLAYER_NAME", "TEAM_ABBREVIATION", "GP", "MIN",
                "PTS", "USG_PCT", "EFG_PCT", "OREB_PCT"}

\* variant: the ratings subscripted like the other fields
row_raises_strict(p) == ~((Subscripted \cup {"OFF_RATING", "DEF_RATING"}) \subseteq DOMAIN p)

row_raises(p) == ~(Subscripted \subseteq DOMAIN p)

\* variant: "<= 1" for "< 1"
scale_pct_le(v) == IF ~RatLess(One, v) THEN RatMul(v, Hundred) ELSE v

scale_pct(v) == IF RatLess(v, One) THEN RatMul(v, Hundred) ELSE v

\* variant: "fga != 0" for "fga > 0"
free_throw_rate_nonzero(fta, fga) == IF fga # Zero THEN RatDiv(fta, fga) ELSE Zero

free_throw_rate(fta, fga) == IF RatLess(Zero, fga) THEN RatDiv(fta, fga) ELSE Zero

normalized_player(p) ==
    LET pid == str(p.PLAYER_ID)
        fga == Get(p, "FGA", Zero)
        fta == Get(p, "FTA", Zero)
        ftr == free_throw_rate(fta, fga)
    IN  [id    |-> pid,
         name  |-> p.PLAYER_NAME,
         team  |-> p.TEAM_ABBREVIATION,
         gp    |-> p.GP,
         min   |-> p.MIN,
         stats |-> [pts_per_100 |-> p.PTS,
                    ortg    |-> Get(p, "OFF_RATING", Zero),
                    drtg    |-> Get(p, "DEF_RATING", Zero),
                    usg_pct |-> scale_pct(p.USG_PCT),
                    efg_pct |-> p.EFG_PCT,
                    tov_pct |-> scale_pct(Get(p, "TM_TOV_PCT", Zero)),
                    orb_pct |-> scale_pct(p.OREB_PCT),
                    ftr     |-> ftr]]

\* variant: an identifier already stored is not overwritten
insert_player_first_wins(db, p) ==
    IF str(p.PLAYER_ID) \in DOMAIN db THEN db
    ELSE Put(db, str(p.PLAYER_ID), normalized_player(p))

insert_player(db, p) == Put(db, str(p.PLAYER_ID), normalized_player(p))

\* variant: a row that raises is skipped
process_row_skip(db, p) ==
    [raised |-> FALSE, db |-> IF row_raises(p) THEN db ELSE insert_player(db, p)]

\* one iteration of "for p in raw_players": either the KeyError escapes and
\* players_db is untouched, or the record is stored under its key
process_row(db, p) ==
    IF row_raises(p) THEN [raised |-> TRUE, db |-> db]
    ELSE [raised |-> FALSE, db |-> insert_player(db, p)]

(***************************************************************************)
(* The upstream, as the run can meet it.                                   *)
(***************************************************************************)
SeqsUpTo(S, n) == UNION {[1..k -> S] : k \in 0..n}

GameRow(gid, home, visitor, seq) ==
    [GAME_ID |-> gid, GAME_DATE_EST |-> "2025-01-30T00:00:00",
     HOME_TEAM_ID |-> home, VISITOR_TEAM_ID |-> visitor, GAME_SEQUENCE |-> seq]

GameRows ==
    {GameRow("0022400001", 1, 9, 1),
     GameRow("0022400002", 9, 2, 2),
     Without(GameRow("0022400003", 2, 1, 3), "GAME_SEQUENCE")}

BoardResponses ==
    {[ok |-> FALSE, rows |-> <<>>]}
    \cup {[ok |-> TRUE, rows |-> r] : r \in SeqsUpTo(GameRows, MaxGames)}

Scales == {"fraction", "whole"}

\* a percentage q (0..100) as the upstream sends it in the given scale
Upstream(scale, q) == IF scale = "fraction" THEN RatDiv(q, Hundred) ELSE q

ProfileA == [id |-> 7, name |-> "Player A", team |-> "ATL", gp |-> 60,
             min |-> <<30, 1>>, pts |-> <<30, 1>>, ortg |-> <<110, 1>>,
             drtg |-> <<105, 1>>, usg |-> <<25, 1>>, efg |-> <<55, 1>>,
             tov |-> <<12, 1>>, orb |-> <<6, 1>>, fga |-> <<10, 1>>,
             fta |-> <<5, 1>>]

ProfileB == [id |-> 7, name |-> "Player B", team |-> "BOS", gp |-> 3,
             min |-> <<12, 1>>, pts |-> <<8, 1>>, ortg |-> <<100, 1>>,
             drtg |-> <<112, 1>>, usg |-> <<100, 1>>, efg |-> <<50, 1>>,
             tov |-> <<0, 1>>, orb |-> <<1, 1>>, fga |-> <<0, 1>>,
             fta |-> <<3, 1>>]

ProfileC == [id |-> 12, name |-> "Player C", team |-> "BOS", gp |-> 41,
             min |-> <<25, 2>>, pts |-> <<21, 1>>, ortg |-> <<98, 1>>,
             drtg |-> <<99, 1>>, usg |-> <<1, 2>>, efg |-> <<40, 1>>,
             tov |-> <<20, 1>>, orb |-> <<3, 1>>, fga |-> <<-2, 1>>,
             fta |-> <<1, 1>>]

Profiles == {ProfileA, ProfileB, ProfileC}

PlayerRow(scale, pr) ==
    [PLAYER_ID |-> pr.id, PLAYER_NAME |-> pr.name,
     TEAM_ABBREVIATION |-> pr.team, GP |-> pr.gp, MIN |-> pr.min,
     PTS |-> pr.pts, OFF_RATING |-> pr.ortg, DEF_RATING |-> pr.drtg,
     USG_PCT |-> Upstream(scale, pr.usg), EFG_PCT |-> Upstream(scale, pr.efg),
     TM_TOV_PCT |-> Upstream(scale, pr.tov), OREB_PCT |-> Upstream(scale, pr.orb),
     FGA |-> pr.fga, FTA |-> pr.fta]

PlayerKeys == DOMAIN PlayerRow("whole", ProfileA)

PlayerRows(scale) ==
    {PlayerRow(scale, pr) : pr \in Profiles}
    \cup {Without(PlayerRow(scale, ProfileA), k) : k \in PlayerKeys}

StatsResponses(scale) ==
    {[ok |-> FALSE, rows |-> <<>>]}
    \cup {[ok |-> TRUE, rows |-> r] : r \in SeqsUpTo(PlayerRows(scale), MaxRows)}

Timestamps == {"2025-01-30T08:00:00"}

(***************************************************************************)
(* The run.                                                                *)
(***************************************************************************)
\* variant: the two fetches in the other order
next_pc_swapped(p) ==
    CASE p = "main" -> "get_team_map"
      [] p = "get_team_map" -> "fetch_player_stats"
      [] p = "fetch_player_stats" -> "fetch_schedule"
      [] p = "fetch_schedule" -> "init_players_db"
      [] p = "init_players_db" -> "for_p_in_raw_players"
      [] p = "for_p_in_raw_players" -> "if_players_and_games"
      [] p = "if_players_and_games" -> "done"

\* the statement order of main (131-136) and process_data (82-128)
next_pc(p) ==
    CASE p = "main" -> "get_team_map"
      [] p = "get_team_map" -> "fetch_schedule"
      [] p = "fetch_schedule" -> "fetch_player_stats"
      [] p = "fetch_player_stats" -> "init_players_db"
      [] p = "init_players_db" -> "for_p_in_raw_players"
      [] p = "for_p_in_raw_players" -> "if_players_and_games"
      [] p = "if_players_and_games" -> "done"

Init ==
    /\ pc = "main"
    /\ dir_exists \in BOOLEAN
    /\ team_map = EmptyDict
    /\ board = [ok |-> FALSE, rows |-> <<>>]
    /\ stats = [ok |-> FALSE, rows |-> <<>>]
    /\ pct_scale \in Scales
    /\ raw_schedule = <<>>
    /\ raw_players = <<>>
    /\ players_db = EmptyDict
    /\ idx = 1
    /\ apex_db = <<>>
    /\ out_file = <<>>
    /\ stdout = <<>>
    /\ calls = [schedule |-> 0, stats |-> 0]
    /\ error = "none"
    /\ trace = <<>>

\* main, lines 131-132
MakeDirs ==
    /\ pc = "main"
    /\ dir_exists' = TRUE
    /\ pc' = next_pc(pc)
    /\ UNCHANGED <<team_map, board, stats, pct_scale, raw_schedule, raw_players,
                   players_db, idx, apex_db, out_file, stdout, calls, error, trace>>

\* process_data, line 82
GetTeamMap ==
    /\ pc = "get_team_map"
    /\ team_map' = get_team_map
    /\ trace' = Append(trace, "team_map")
    /\ pc' = next_pc(pc)
    /\ UNCHANGED <<dir_exists, board, stats, pct_scale, raw_schedule, raw_players,
                   players_db, idx, apex_db, out_file, stdout, calls, error>>

\* process_data, line 85
FetchSchedule ==
    /\ pc = "fetch_schedule"
    /\ \E resp \in BoardResponses :
        /\ board' = resp
        /\ raw_schedule' = fetch_schedule(team_map, resp)
        /\ stdout' = stdout \o <<"Fetching Schedule">>
                     \o (IF schedule_raises(team_map, resp)
                         THEN <<"Error fetching schedule">> ELSE <<>>)
    /\ calls' = [calls EXCEPT !.schedule = @ + 1]
    /\ trace' = Append(trace, "schedule")
    /\ pc' = next_pc(pc)
    /\ UNCHANGED <<dir_exists, team_map, stats, pct_scale, raw_players,
                   players_db, idx, apex_db, out_file, error>>

\* process_data, line 86
FetchPlayerStats ==
    /\ pc = "fetch_player_stats"
    /\ \E resp \in StatsResponses(pct_scale) :
        /\ stats' = resp
        /\ raw_players' = fetch_player_stats(resp)
        /\ stdout' = stdout \o <<"Fetching Player Stats">>
                     \o (IF resp.ok THEN <<>> ELSE <<"Error fetching stats">>)
    /\ calls' = [calls EXCEPT !.stats = @ + 1]
    /\ trace' = Append(trace, "players")
    /\ pc' = next_pc(pc)
    /\ UNCHANGED <<dir_exists, team_map, board, pct_scale, raw_schedule,
                   players_db, idx, apex_db, out_file, error>>

\* process_data, lines 89-90
StartNormalize ==
    /\ pc = "init_players_db"
    /\ players_db' = EmptyDict
    /\ idx' = 1
    /\ stdout' = Append(stdout, "Processing players")
    /\ trace' = Append(trace, "normalize")
    /\ pc' = next_pc(pc)
    /\ UNCHANGED <<dir_exists, team_map, board, stats, pct_scale, raw_schedule,
                   raw_players, apex_db, out_file, calls, error>>

\* process_data, lines 92-116: one iteration that completes
NormalizeRow ==
    /\ pc = "for_p_in_raw_players"
    /\ idx <= Len(raw_players)
    /\ ~process_row(players_db, raw_players[idx]).raised
    /\ players_db' = process_row(players_db, raw_players[idx]).db
    /\ idx' = idx + 1
    /\ UNCHANGED <<pc, dir_exists, team_map, board, stats, pct_scale, raw_schedule,
                   raw_players, apex_db, out_file, stdout, calls, error, trace>>

\* process_data, lines 92-116: one iteration that raises KeyError; nothing in
\* process_data or main catches it
NormalizeRowRaises ==
    /\ pc = "for_p_in_raw_players"
    /\ idx <= Len(raw_players)
    /\ process_row(players_db, raw_players[idx]).raised
    /\ error' = "KeyError"
    /\ pc' = "crashed"
    /\ UNCHANGED <<dir_exists, team_map, board, stats, pct_scale, raw_schedule,
                   raw_players, players_db, idx, apex_db, out_file, stdout, calls,
                   trace>>

\* process_data, lines 119-128
Assemble ==
    /\ pc = "for_p_in_raw_players"
    /\ idx > Len(raw_players)
    /\ \E now \in Timestamps :
        apex_db' = <<[metadata |-> [generated_at |-> now, season |-> SEASON],
                      games    |-> raw_schedule,
                      players  |-> players_db]>>
    /\ trace' = Append(trace, "assemble")
    /\ pc' = next_pc(pc)
    /\ UNCHANGED <<dir_exists, team_map, board, stats, pct_scale, raw_schedule,
                   raw_players, players_db, idx, out_file, stdout, calls, error>>

\* variant: "or" for "and"
complete_or(db) == DOMAIN db.players # {} \/ Len(db.games) > 0

\* main, line 136
complete(db) == DOMAIN db.players # {} /\ Len(db.games) > 0

\* main, lines 136-141
WriteFile ==
    /\ pc = "if_players_and_games"
    /\ complete(apex_db[1])
    /\ out_file' = <<apex_db[1]>>
    /\ stdout' = Append(stdout, "DATABASE SAVED")
    /\ trace' = Append(trace, "write")
    /\ pc' = next_pc(pc)
    /\ UNCHANGED <<dir_exists, team_map, board, stats, pct_scale, raw_schedule,
                   raw_players, players_db, idx, apex_db, calls, error>>

\* main, lines 142-143
Warn ==
    /\ pc = "if_players_and_games"
    /\ ~complete(apex_db[1])
    /\ stdout' = Append(stdout, "Failed to generate complete database.")
    /\ trace' = Append(trace, "warn")
    /\ pc' = next_pc(pc)
    /\ UNCHANGED <<dir_exists, team_map, board, stats, pct_scale, raw_schedule,
                   raw_players, players_db, idx, apex_db, out_file, calls, error>>

Next ==
    \/ MakeDirs
    \/ GetTeamMap
    \/ FetchSchedule
    \/ FetchPlayerStats
    \/ StartNormalize
    \/ NormalizeRow
    \/ NormalizeRowRaises
    \/ Assemble
    \/ WriteFile
    \/ Warn

Spec == Init /\ [][Next]_vars

TypeOK == pc \in {"main", "get_team_map", "fetch_schedule", "fetch_player_stats",
                  "init_players_db", "for_p_in_raw_players",
                  "if_players_and_games", "done", "crashed"}

(***************************************************************************)
(* What the run met, read off the upstream answers alone.                  *)
(***************************************************************************)
ScheduleFetched == calls.schedule > 0
StatsFetched == calls.stats > 0

BadGameRows == {i \in 1..Len(board.rows) : \E k \in GameKeys : k \notin DOMAIN board.rows[i]}
ScheduleException == ScheduleFetched /\ (~board.ok \/ BadGameRows # {})
StatsException == StatsFetched /\ ~stats.ok

Returned == apex_db # <<>>
Incomplete == Returned /\ (Len(apex_db[1].games) = 0 \/ Cardinality(DOMAIN apex_db[1].players) = 0)
Warned == \E i \in 1..Len(stdout) : stdout[i] = "Failed to generate complete database."
InTrace(stage) == \E i \in 1..Len(trace) : trace[i] = stage

(***************************************************************************)
(* C1: the output file is written if and only if the assembled snapshot    *)
(* has a non-empty games sequence and a non-empty players mapping; when    *)
(* either is empty no file is written, the warning is printed and the run  *)
(* ends normally.                                                          *)
(***************************************************************************)
C1_WrittenIffComplete ==
    /\ out_file # <<>> => (Returned /\ ~Incomplete /\ out_file = apex_db /\ ~Warned)
    /\ Warned => Incomplete
    /\ Incomplete => (out_file = <<>> /\ error = "none" /\ pc # "crashed")
    /\ pc = "done" => /\ Returned
                      /\ error = "none"
                      /\ (out_file # <<>>) <=> ~Incomplete
                      /\ Warned <=> Incomplete

C1_Witness ==
    /\ pc = "done"
    /\ Len(apex_db[1].games) = 0
    /\ Cardinality(DOMAIN apex_db[1].players) > 0
    /\ out_file = <<>>
    /\ Warned

(***************************************************************************)
(* C2: an exception inside fetch_schedule (the call or the projection of a *)
(* game row) or inside fetch_player_stats yields the empty sequence, does  *)
(* not escape, is not retried, and the run goes on to the later stages.    *)
(***************************************************************************)
C2_FetchFailureNonFatal ==
    /\ calls.schedule <= 1 /\ calls.stats <= 1
    /\ ScheduleException =>
          /\ raw_schedule = <<>>
          /\ pc = "fetch_player_stats" \/ InTrace("players")
          /\ pc \notin {"fetch_player_stats", "init_players_db"} => InTrace("normalize")
    /\ StatsException =>
          /\ raw_players = <<>>
          /\ pc = "init_players_db" \/ InTrace("normalize")
          /\ pc \in {"if_players_and_games", "done"} => InTrace("assemble")
          /\ pc # "crashed"
    /\ error # "none" =>
          /\ trace[Len(trace)] = "normalize"
          /\ idx \in 1..Len(raw_players)
          /\ \E k \in PlayerKeys : k \notin DOMAIN raw_players[idx]

C2_Witness ==
    /\ pc = "done"
    /\ board.ok
    /\ Len(board.rows) = 2
    /\ BadGameRows = {2}
    /\ raw_schedule = <<>>
    /\ Len(raw_players) > 0

(***************************************************************************)
(* C3: a raw player row without name, team or a subscripted percentage     *)
(* field makes the normalization raise; the run ends there: no snapshot,   *)
(* no file, and no later row is processed, whatever came before it.        *)
(***************************************************************************)
C3Fields == {"PLAYER_NAME", "TEAM_ABBREVIATION", "USG_PCT", "EFG_PCT", "OREB_PCT"}
C3Lacking(p) == \E k \in C3Fields : k \notin DOMAIN p

C3_MissingRequiredIsFatal ==
    \A i \in 1..Len(raw_players) :
        C3Lacking(raw_players[i]) =>
            /\ idx <= i
            /\ apex_db = <<>>
            /\ out_file = <<>>
            /\ pc \in {"init_players_db", "for_p_in_raw_players", "crashed"}
            /\ pc = "crashed" => (error = "KeyError" /\ ~Warned)

C3_Witness ==
    /\ pc = "crashed"
    /\ idx = 2
    /\ C3Lacking(raw_players[2])
    /\ DOMAIN players_db # {}
    /\ Len(raw_schedule) > 0
    /\ apex_db = <<>>
    /\ out_file = <<>>

(***************************************************************************)
(* The rows the loop has completed, and the row an entry comes from.       *)
(***************************************************************************)
Processed == 1..(idx - 1)
IdText(n) == CASE n = 7 -> "7" [] n = 12 -> "12"
RowsOf(k) == {i \in Processed : IdText(raw_players[i].PLAYER_ID) = k}
LastRowOf(k) == raw_players[CHOOSE i \in RowsOf(k) : \A j \in RowsOf(k) : j <= i]
SameRat(a, b) == a[1] * b[2] = b[1] * a[2]

(***************************************************************************)
(* C4: the players mapping has exactly one entry per distinct player       *)
(* identifier among the rows normalized, keyed by the decimal string of    *)
(* the identifier; an entry's id is its key and its values are those of    *)
(* the last row with that identifier.                                      *)
(***************************************************************************)
C4_OneEntryPerIdLastWins ==
    /\ DOMAIN players_db = {IdText(raw_players[i].PLAYER_ID) : i \in Processed}
    /\ Cardinality(DOMAIN players_db)
          = Cardinality({raw_players[i].PLAYER_ID : i \in Processed})
    /\ \A k \in DOMAIN players_db :
          /\ players_db[k].id = k
          /\ players_db[k].name = LastRowOf(k).PLAYER_NAME
          /\ players_db[k].team = LastRowOf(k).TEAM_ABBREVIATION
          /\ players_db[k].gp = LastRowOf(k).GP
          /\ players_db[k].min = LastRowOf(k).MIN
          /\ players_db[k] = normalized_player(LastRowOf(k))
    /\ Returned => (idx = Len(raw_players) + 1 /\ apex_db[1].players = players_db)

C4_Witness ==
    /\ pc = "done"
    /\ Len(raw_players) = 2
    /\ raw_players[1].PLAYER_ID = raw_players[2].PLAYER_ID
    /\ raw_players[1].PLAYER_NAME # raw_players[2].PLAYER_NAME
    /\ DOMAIN apex_db[1].players = {"7"}
    /\ apex_db[1].players["7"].name = raw_players[2].PLAYER_NAME

(***************************************************************************)
(* C5: every percentage stat of every normalized player (usg_pct, efg_pct, *)
(* tov_pct, orb_pct) is the percentage on the 0-100 scale, in whichever of *)
(* the two scales the upstream sent it.                                    *)
(***************************************************************************)
TruePct(v) == IF pct_scale = "fraction" THEN RatMul(v, Hundred) ELSE v

C5_AllPercentagesWholeScale ==
    \A k \in DOMAIN players_db :
        LET r == LastRowOf(k)
            st == players_db[k].stats
        IN  /\ st.usg_pct = TruePct(r.USG_PCT)
            /\ st.efg_pct = TruePct(r.EFG_PCT)
            /\ "TM_TOV_PCT" \in DOMAIN r => st.tov_pct = TruePct(r.TM_TOV_PCT)
            /\ st.orb_pct = TruePct(r.OREB_PCT)

(***************************************************************************)
(* C6: each of usage%, turnover% and offensive-rebound% is stored as v*100 *)
(* when its upstream value v is below 1 and as v otherwise (v = 1          *)
(* included), each on its own; the two ratings and the effective           *)
(* field-goal percentage are stored as received.                           *)
(***************************************************************************)
C6Scaled(v, stored) ==
    IF v[1] < v[2] THEN stored[1] * v[2] = 100 * v[1] * stored[2] ELSE stored = v

C6_ScaleRule ==
    \A k \in DOMAIN players_db :
        LET r == LastRowOf(k)
            st == players_db[k].stats
        IN  /\ C6Scaled(r.USG_PCT, st.usg_pct)
            /\ "TM_TOV_PCT" \in DOMAIN r => C6Scaled(r.TM_TOV_PCT, st.tov_pct)
            /\ C6Scaled(r.OREB_PCT, st.orb_pct)
            /\ "OFF_RATING" \in DOMAIN r => st.ortg = r.OFF_RATING
            /\ "DEF_RATING" \in DOMAIN r => st.drtg = r.DEF_RATING
            /\ st.efg_pct = r.EFG_PCT

C6_Witness ==
    \E k \in DOMAIN players_db :
        LET r == LastRowOf(k)
            st == players_db[k].stats
        IN  /\ r.USG_PCT = <<1, 1>>
            /\ st.usg_pct = <<1, 1>>
            /\ "TM_TOV_PCT" \in DOMAIN r
            /\ r.OREB_PCT = <<1, 100>>
            /\ st.orb_pct = <<1, 1>>
            /\ st.efg_pct = <<1, 2>>

(***************************************************************************)
(* C7: ftr is fta / fga when fga > 0 and 0 otherwise (fga zero, negative   *)
(* or absent); such a row is normalized like any other.                    *)
(***************************************************************************)
C7_FreeThrowRate ==
    /\ \A k \in DOMAIN players_db :
          LET r == LastRowOf(k)
              ftr == players_db[k].stats.ftr
          IN  IF "FGA" \in DOMAIN r /\ r.FGA[1] > 0
              THEN "FTA" \in DOMAIN r => ftr[1] * r.FGA[1] * r.FTA[2] = r.FTA[1] * r.FGA[2] * ftr[2]
              ELSE ftr = <<0, 1>>
    /\ pc = "crashed" => ~((PlayerKeys \ {"FGA"}) \subseteq DOMAIN raw_players[idx])

C7_Witness ==
    /\ Returned
    /\ \E i, j \in 1..Len(raw_players) :
          /\ DOMAIN raw_players[i] = PlayerKeys
          /\ raw_players[i].FGA = <<0, 1>>
          /\ raw_players[i].FTA = <<3, 1>>
          /\ players_db["7"].stats.ftr = <<0, 1>>
          /\ DOMAIN raw_players[j] = PlayerKeys
          /\ raw_players[j].FGA = <<-2, 1>>
          /\ players_db["12"].stats.ftr = <<0, 1>>

(***************************************************************************)
(* C8: a home or visitor team identifier that is not in the team directory *)
(* gives the abbreviation "UNK" in that game's schedule entry; the miss    *)
(* raises nothing and drops no game.                                       *)
(***************************************************************************)
Abbreviation(id) ==
    IF \E i \in 1..Len(nba_teams) : nba_teams[i].id = id
    THEN nba_teams[CHOOSE i \in 1..Len(nba_teams) : nba_teams[i].id = id].abbreviation
    ELSE "UNK"

C8_UnknownTeamIsUNK ==
    (ScheduleFetched /\ board.ok /\ BadGameRows = {}) =>
        /\ Len(raw_schedule) = Len(board.rows)
        /\ \A i \in 1..Len(board.rows) :
              /\ raw_schedule[i].gameId = board.rows[i].GAME_ID
              /\ raw_schedule[i].homeTeamId = Abbreviation(board.rows[i].HOME_TEAM_ID)
              /\ raw_schedule[i].awayTeamId = Abbreviation(board.rows[i].VISITOR_TEAM_ID)
        /\ error # "none" => InTrace("normalize")

C8_Witness ==
    /\ pc = "done"
    /\ Len(raw_schedule) = 2
    /\ raw_schedule[1].homeTeamId = "UNK" /\ raw_schedule[1].awayTeamId = "BOS"
    /\ raw_schedule[2].homeTeamId = "ATL" /\ raw_schedule[2].awayTeamId = "UNK"
    /\ out_file # <<>>
    /\ out_file[1].games = raw_schedule

(***************************************************************************)
(* C9 as stated: only a missing name, team or subscripted percentage field *)
(* fails a row; a row that has its identifier and lacks any other field    *)
(* (games played, minutes, points, ratings, turnover%, fga, fta) is        *)
(* normalized.                                                             *)
(***************************************************************************)
C9_OnlyNameTeamPctFail ==
    (pc = "crashed" /\ "PLAYER_ID" \in DOMAIN raw_players[idx])
        => C3Lacking(raw_players[idx])

(***************************************************************************)
(* C9 as amended: a row lacking offensive rating, defensive rating,        *)
(* turnover%, fga or fta is normalized with that field taken as 0; a row   *)
(* lacking identifier, name, team, games played, minutes, points, usage%,  *)
(* effective field-goal% or offensive-rebound% fails, and nothing else     *)
(* fails a row.                                                            *)
(***************************************************************************)
C9Failing == {"PLAYER_ID", "PLAYER_NAME", "TEAM_ABBREVIATION", "GP", "MIN", "PTS",
              "USG_PCT", "EFG_PCT", "OREB_PCT"}
C9Defaulted == {"OFF_RATING", "DEF_RATING", "TM_TOV_PCT", "FGA", "FTA"}

C9_OptionalFieldsDefault ==
    /\ pc = "crashed" => \E k \in C9Failing : k \notin DOMAIN raw_players[idx]
    /\ \A i \in 1..Len(raw_players) :
          (\E k \in C9Failing : k \notin DOMAIN raw_players[i]) => idx <= i
    /\ \A i \in Processed : IdText(raw_players[i].PLAYER_ID) \in DOMAIN players_db
    /\ \A k \in DOMAIN players_db :
          LET r == LastRowOf(k)
              st == players_db[k].stats
          IN  /\ "OFF_RATING" \notin DOMAIN r => st.ortg = <<0, 1>>
              /\ "DEF_RATING" \notin DOMAIN r => st.drtg = <<0, 1>>
              /\ "TM_TOV_PCT" \notin DOMAIN r => st.tov_pct = <<0, 1>>
              /\ "FGA" \notin DOMAIN r => st.ftr = <<0, 1>>
              /\ "FTA" \notin DOMAIN r => st.ftr = <<0, 1>>

C9_Witness ==
    /\ pc = "done"
    /\ Len(raw_players) = 2
    /\ DOMAIN raw_players[1] = PlayerKeys \ {"OFF_RATING"}
    /\ DOMAIN raw_players[2] = PlayerKeys \ {"TM_TOV_PCT"}
    /\ players_db["7"].stats.tov_pct = <<0, 1>>
    /\ players_db["7"].stats.ortg # <<0, 1>>

(***************************************************************************)
(* C10: the stages start in the order team resolution, schedule fetch,     *)
(* player fetch, normalization, assembly, then the write or the warning;   *)
(* each starts only when the one before it has returned, the player fetch  *)
(* follows the schedule fetch whatever its outcome, and nothing is written *)
(* before the assembly.                                                    *)
(***************************************************************************)
StageOrder == <<"team_map", "schedule", "players", "normalize", "assemble">>

C10_StagesInOrder ==
    /\ Len(trace) <= Len(StageOrder) + 1
    /\ \A i \in 1..Len(trace) :
          IF i <= Len(StageOrder) THEN trace[i] = StageOrder[i]
          ELSE trace[i] \in {"write", "warn"}
    /\ InTrace("schedule") => team_map = get_team_map
    /\ InTrace("players") => ScheduleFetched
    /\ InTrace("normalize") => StatsFetched
    /\ InTrace("assemble") => idx = Len(raw_players) + 1
    /\ Returned <=> InTrace("assemble")
    /\ out_file # <<>> => (Returned /\ trace[Len(trace)] = "write")
    /\ (ScheduleFetched /\ pc \notin {"fetch_player_stats"}) => StatsFetched

C10_Witness ==
    /\ pc = "done"
    /\ ScheduleException
    /\ trace = StageOrder \o <<"write">> \/ trace = StageOrder \o <<"warn">>
    /\ StatsFetched /\ Len(raw_players) > 0

====
